---- MODULE Spec2Model ----
(***************************************************************************)
(* Model of qutebrowser.utils.usertypes.NeighborList: a list of items      *)
(* which saves its current position (idx), with three boundary modes and   *)
(* a pending "fuzzy" value that the next relative step snaps in.           *)
(*                                                                         *)
(* idx is 0-based as in the Python source; TLA+ sequences are 1-based, so  *)
(* the item at idx is items[idx + 1].                                      *)
(***************************************************************************)
EXTENDS Integers, Sequences, FiniteSets, TLC

\* ---- bounds of the model ----
MaxLen == 2
MaxVal == 2
MaxOff == 3

\* ---- Python sentinels ----
\* None (idx when there is no current item, fuzzyval when nothing is pending)
None == -1
\* _UNSET, the constructor's "no default" sentinel
UNSET == -2

Vals == 0..MaxVal
Offsets == (0 - MaxOff)..MaxOff
Modes == {"block", "wrap", "exception"}

ItemLists == UNION {[1..n -> Vals] : n \in 0..MaxLen}

Range(s) == {s[i] : i \in 1..Len(s)}

Abs(x) == IF x < 0 THEN 0 - x ELSE x

\* list.index(v): the 0-based position of the first occurrence of v
Index(s, v) == (CHOOSE i \in 1..Len(s) :
                    s[i] = v /\ \A j \in 1..(i - 1) : s[j] # v) - 1

\* ---- results of a call: a returned value or a raised exception ----
Ok(v) == [exc |-> "", msg |-> "", val |-> v]
Raise(e, m) == [exc |-> e, msg |-> m, val |-> None]

NoItemsFound == Raise("IndexError", "No items found!")
NoCurrentItem == Raise("IndexError", "No current item!")
NoDefaultSet == Raise("ValueError", "No default set!")
ListIndexOutOfRange == Raise("IndexError", "list index out of range")
BareIndexError == Raise("IndexError", "")
MinOfEmpty == Raise("ValueError", "min() arg is an empty sequence")
NoneTypeError == Raise("TypeError", "unsupported operand type(s) for +")

\* the outcome of a method: what it returned or raised, and the fields after
Out(r, i, f) == [ret |-> r, idx |-> i, fuzzyval |-> f]

\* ---- curitem ----
CurItem(items, idx, fuzzyval) ==
    IF idx # None
    THEN Out(Ok(items[idx + 1]), idx, fuzzyval)
    ELSE Out(NoCurrentItem, idx, fuzzyval)

\* ---- _snap_in ----
\* the (0-based index) candidates on the requested side of fuzzyval
SnapCandidates(items, fuzzyval, offset) ==
    {i \in 1..Len(items) :
        IF offset < 0 THEN items[i] <= fuzzyval ELSE items[i] >= fuzzyval}

\* variant of _snap_in that reports a snap even for a member
SnapInAlwaysSnapped(items, fuzzyval, offset) ==
    LET cand == SnapCandidates(items, fuzzyval, offset)
    IN  IF cand = {}
        THEN [ret |-> MinOfEmpty, idx |-> None, snapped |-> FALSE]
        ELSE LET close == CHOOSE i \in cand :
                     \A j \in cand :
                        \/ Abs(fuzzyval - items[i]) < Abs(fuzzyval - items[j])
                        \/ /\ Abs(fuzzyval - items[i]) = Abs(fuzzyval - items[j])
                           /\ i <= j
             IN  [ret |-> Ok(None), idx |-> close - 1, snapped |-> TRUE]

\* variant of _snap_in that falls back to the first item when no item lies
\* on the requested side
SnapInFallback(items, fuzzyval, offset) ==
    LET cand == SnapCandidates(items, fuzzyval, offset)
    IN  IF cand = {}
        THEN [ret |-> Ok(None), idx |-> 0,
              snapped |-> fuzzyval \notin Range(items)]
        ELSE LET close == CHOOSE i \in cand :
                     \A j \in cand :
                        \/ Abs(fuzzyval - items[i]) < Abs(fuzzyval - items[j])
                        \/ /\ Abs(fuzzyval - items[i]) = Abs(fuzzyval - items[j])
                           /\ i <= j
             IN  [ret |-> Ok(None), idx |-> close - 1,
                  snapped |-> fuzzyval \notin Range(items)]

\* min() keeps the first of several equally close candidates
SnapIn(items, fuzzyval, offset) ==
    LET cand == SnapCandidates(items, fuzzyval, offset)
    IN  IF cand = {}
        THEN [ret |-> MinOfEmpty, idx |-> None, snapped |-> FALSE]
        ELSE LET close == CHOOSE i \in cand :
                     \A j \in cand :
                        \/ Abs(fuzzyval - items[i]) < Abs(fuzzyval - items[j])
                        \/ /\ Abs(fuzzyval - items[i]) = Abs(fuzzyval - items[j])
                           /\ i <= j
             IN  [ret |-> Ok(None), idx |-> close - 1,
                  snapped |-> fuzzyval \notin Range(items)]

\* ---- _get_new_item ----
\* variants of _get_new_item with a slip in one boundary mode
GetNewItemRaiseMoves(items, mode, idx, fuzzyval, offset) ==
    IF idx = None
    THEN Out(NoneTypeError, idx, fuzzyval)
    ELSE IF idx + offset >= 0 /\ idx + offset < Len(items)
    THEN Out(Ok(items[idx + offset + 1]), idx + offset, fuzzyval)
    ELSE IF mode = "block"
    THEN CurItem(items, idx, fuzzyval)
    ELSE IF mode = "wrap"
    THEN CurItem(items, (idx + offset) % Len(items), fuzzyval)
    ELSE Out(IF idx + offset >= 0 THEN ListIndexOutOfRange ELSE BareIndexError,
             IF idx + offset >= 0 THEN Len(items) - 1 ELSE 0, fuzzyval)

GetNewItemWrapNoMod(items, mode, idx, fuzzyval, offset) ==
    IF idx = None
    THEN Out(NoneTypeError, idx, fuzzyval)
    ELSE IF idx + offset >= 0 /\ idx + offset < Len(items)
    THEN Out(Ok(items[idx + offset + 1]), idx + offset, fuzzyval)
    ELSE IF mode = "block"
    THEN CurItem(items, idx, fuzzyval)
    ELSE IF mode = "wrap"
    THEN Out(ListIndexOutOfRange, idx + offset, fuzzyval)
    ELSE Out(IF idx + offset >= 0 THEN ListIndexOutOfRange ELSE BareIndexError,
             idx, fuzzyval)

GetNewItemBlockRaises(items, mode, idx, fuzzyval, offset) ==
    IF idx = None
    THEN Out(NoneTypeError, idx, fuzzyval)
    ELSE IF idx + offset >= 0 /\ idx + offset < Len(items)
    THEN Out(Ok(items[idx + offset + 1]), idx + offset, fuzzyval)
    ELSE IF mode = "wrap"
    THEN CurItem(items, (idx + offset) % Len(items), fuzzyval)
    ELSE Out(IF idx + offset >= 0 THEN ListIndexOutOfRange ELSE BareIndexError,
             idx, fuzzyval)

\* Python's negative indexing, without the guard on idx + offset >= 0
GetNewItemNegIndex(items, mode, idx, fuzzyval, offset) ==
    IF idx = None
    THEN Out(NoneTypeError, idx, fuzzyval)
    ELSE IF idx + offset >= 0 - Len(items) /\ idx + offset < Len(items)
    THEN Out(Ok(items[((idx + offset) % Len(items)) + 1]), idx + offset,
             fuzzyval)
    ELSE IF mode = "block"
    THEN CurItem(items, idx, fuzzyval)
    ELSE IF mode = "wrap"
    THEN CurItem(items, (idx + offset) % Len(items), fuzzyval)
    ELSE Out(ListIndexOutOfRange, idx, fuzzyval)

\* wrap mode jumping to the other end instead of counting modulo len
GetNewItemWrapToEnd(items, mode, idx, fuzzyval, offset) ==
    IF idx = None
    THEN Out(NoneTypeError, idx, fuzzyval)
    ELSE IF idx + offset >= 0 /\ idx + offset < Len(items)
    THEN Out(Ok(items[idx + offset + 1]), idx + offset, fuzzyval)
    ELSE IF mode = "block"
    THEN CurItem(items, idx, fuzzyval)
    ELSE IF mode = "wrap"
    THEN CurItem(items, IF idx + offset >= 0 THEN 0 ELSE Len(items) - 1,
                 fuzzyval)
    ELSE Out(IF idx + offset >= 0 THEN ListIndexOutOfRange ELSE BareIndexError,
             idx, fuzzyval)

\* the in-range move returning the new item without storing the new idx
GetNewItemNoAdvance(items, mode, idx, fuzzyval, offset) ==
    IF idx = None
    THEN Out(NoneTypeError, idx, fuzzyval)
    ELSE IF idx + offset >= 0 /\ idx + offset < Len(items)
    THEN Out(Ok(items[idx + offset + 1]), idx, fuzzyval)
    ELSE IF mode = "block"
    THEN CurItem(items, idx, fuzzyval)
    ELSE IF mode = "wrap"
    THEN CurItem(items, (idx + offset) % Len(items), fuzzyval)
    ELSE Out(IF idx + offset >= 0 THEN ListIndexOutOfRange ELSE BareIndexError,
             idx, fuzzyval)

\* a missing cursor counted as index 0
GetNewItemNoneAsZero(items, mode, idx, fuzzyval, offset) ==
    LET cur == IF idx = None THEN 0 ELSE idx
    IN  IF cur + offset >= 0 /\ cur + offset < Len(items)
        THEN Out(Ok(items[cur + offset + 1]), cur + offset, fuzzyval)
        ELSE IF mode = "block"
        THEN CurItem(items, cur, fuzzyval)
        ELSE IF mode = "wrap"
        THEN CurItem(items, (cur + offset) % Len(items), fuzzyval)
        ELSE Out(IF cur + offset >= 0 THEN ListIndexOutOfRange
                 ELSE BareIndexError, cur, fuzzyval)

GetNewItem(items, mode, idx, fuzzyval, offset) ==
    IF idx = None
    THEN Out(NoneTypeError, idx, fuzzyval)
    ELSE IF idx + offset >= 0 /\ idx + offset < Len(items)
    THEN Out(Ok(items[idx + offset + 1]), idx + offset, fuzzyval)
    ELSE IF mode = "block"
    THEN CurItem(items, idx, fuzzyval)
    ELSE IF mode = "wrap"
    THEN CurItem(items, (idx + offset) % Len(items), fuzzyval)
    ELSE Out(IF idx + offset >= 0 THEN ListIndexOutOfRange ELSE BareIndexError,
             idx, fuzzyval)

\* ---- getitem ----
\* variant of getitem that does not count the snap as a step
GetItemNoConsume(items, mode, idx, fuzzyval, offset) ==
    IF Len(items) = 0
    THEN Out(NoItemsFound, idx, fuzzyval)
    ELSE IF fuzzyval # None
    THEN LET snap == SnapIn(items, fuzzyval, offset)
         IN  IF snap.ret.exc # ""
             THEN Out(snap.ret, idx, fuzzyval)
             ELSE GetNewItem(items, mode, snap.idx, None, offset)
    ELSE GetNewItem(items, mode, idx, fuzzyval, offset)

\* variant of getitem that leaves the fuzzy value pending after the snap
GetItemKeepsFuzzy(items, mode, idx, fuzzyval, offset) ==
    IF Len(items) = 0
    THEN Out(NoItemsFound, idx, fuzzyval)
    ELSE IF fuzzyval # None
    THEN LET snap == SnapIn(items, fuzzyval, offset)
         IN  IF snap.ret.exc # ""
             THEN Out(snap.ret, idx, fuzzyval)
             ELSE LET rest == IF snap.snapped /\ offset > 0 THEN offset - 1
                              ELSE IF snap.snapped THEN offset + 1
                              ELSE offset
                  IN  GetNewItem(items, mode, snap.idx, fuzzyval, rest)
    ELSE GetNewItem(items, mode, idx, fuzzyval, offset)

GetItem(items, mode, idx, fuzzyval, offset) ==
    IF Len(items) = 0
    THEN Out(NoItemsFound, idx, fuzzyval)
    ELSE IF fuzzyval # None
    THEN LET snap == SnapIn(items, fuzzyval, offset)
         IN  IF snap.ret.exc # ""
             THEN Out(snap.ret, idx, fuzzyval)
             ELSE LET rest == IF snap.snapped /\ offset > 0 THEN offset - 1
                              ELSE IF snap.snapped THEN offset + 1
                              ELSE offset
                  IN  GetNewItem(items, mode, snap.idx, None, rest)
    ELSE GetNewItem(items, mode, idx, fuzzyval, offset)

\* ---- firstitem / lastitem / reset ----
\* variants of firstitem / lastitem / reset with a slip
FirstItemNoEmptyCheck(items, idx, fuzzyval) ==
    IF Len(items) = 0
    THEN Out(ListIndexOutOfRange, 0, fuzzyval)
    ELSE CurItem(items, 0, fuzzyval)

LastItemClearsFuzzy(items, idx, fuzzyval) ==
    IF Len(items) = 0
    THEN Out(NoItemsFound, idx, fuzzyval)
    ELSE CurItem(items, Len(items) - 1, None)

ResetItemKeepsIdx(items, default, idx, fuzzyval) ==
    IF default = UNSET
    THEN Out(NoDefaultSet, idx, fuzzyval)
    ELSE Out(Ok(default), idx, fuzzyval)

FirstItem(items, idx, fuzzyval) ==
    IF Len(items) = 0
    THEN Out(NoItemsFound, idx, fuzzyval)
    ELSE CurItem(items, 0, fuzzyval)

LastItem(items, idx, fuzzyval) ==
    IF Len(items) = 0
    THEN Out(NoItemsFound, idx, fuzzyval)
    ELSE CurItem(items, Len(items) - 1, fuzzyval)

ResetItem(items, default, idx, fuzzyval) ==
    IF default = UNSET
    THEN Out(NoDefaultSet, idx, fuzzyval)
    ELSE CurItem(items, Index(items, default), fuzzyval)

\* ---- state ----
VARIABLES items, default, mode, idx, fuzzyval,
          op, arg, idx0, fuzzy0, ret, nextRun, runIdx, backIdx

vars == <<items, default, mode, idx, fuzzyval,
          op, arg, idx0, fuzzy0, ret, nextRun, runIdx, backIdx>>

\* __init__: a default that is not in items raises ValueError, so no object
Init ==
    /\ items \in ItemLists
    /\ default \in {UNSET} \cup Range(items)
    /\ mode \in Modes
    /\ idx = IF default # UNSET THEN Index(items, default) ELSE None
    /\ fuzzyval = None
    /\ op = "init"
    /\ arg = 0
    /\ idx0 = None
    /\ fuzzy0 = None
    /\ ret = Ok(None)
    /\ nextRun = 0
    /\ runIdx = None
    /\ backIdx = None

StepOps == {"getitem", "nextitem", "previtem"}

\* bookkeeping shared by all calls: o is the method, a its argument,
\* out its outcome.  backIdx is the cursor a step by a started back to: set
\* when the call before was a step by -a that returned an item, made with a
\* cursor and with no fuzzy value pending before or after it
Call(o, a, out) ==
    /\ op' = o
    /\ arg' = a
    /\ idx0' = idx
    /\ fuzzy0' = fuzzyval
    /\ ret' = out.ret
    /\ idx' = out.idx
    /\ fuzzyval' = out.fuzzyval
    /\ backIdx' = IF /\ o \in StepOps
                     /\ op \in StepOps
                     /\ a = 0 - arg
                     /\ idx0 # None
                     /\ fuzzy0 = None
                     /\ fuzzyval = None
                     /\ ret.exc = ""
                  THEN idx0
                  ELSE None
    /\ UNCHANGED <<items, default, mode>>

NoRun == nextRun' = 0 /\ runIdx' = None

Step ==
    \E offset \in Offsets :
        /\ Call("getitem", offset, GetItem(items, mode, idx, fuzzyval, offset))
        /\ NoRun

\* nextRun counts the nextitem calls made in a row from cursor runIdx,
\* starting with no fuzzy value pending
NextItemCall ==
    /\ Call("nextitem", 1, GetItem(items, mode, idx, fuzzyval, 1))
    /\ IF idx = None \/ fuzzyval # None
       THEN NoRun
       ELSE IF nextRun > 0 /\ nextRun < Len(items)
       THEN nextRun' = nextRun + 1 /\ runIdx' = runIdx
       ELSE nextRun' = 1 /\ runIdx' = idx

PrevItemCall ==
    /\ Call("previtem", -1, GetItem(items, mode, idx, fuzzyval, -1))
    /\ NoRun

FirstItemCall ==
    /\ Call("firstitem", 0, FirstItem(items, idx, fuzzyval))
    /\ NoRun

LastItemCall ==
    /\ Call("lastitem", 0, LastItem(items, idx, fuzzyval))
    /\ NoRun

ResetCall ==
    /\ Call("reset", 0, ResetItem(items, default, idx, fuzzyval))
    /\ NoRun

CurItemCall ==
    /\ Call("curitem", 0, CurItem(items, idx, fuzzyval))
    /\ NoRun

\* callers assign the fuzzyval attribute directly
SetFuzzy ==
    \E v \in Vals :
        /\ Call("set_fuzzy", v, Out(Ok(None), idx, v))
        /\ NoRun

Next ==
    \/ Step
    \/ NextItemCall
    \/ PrevItemCall
    \/ FirstItemCall
    \/ LastItemCall
    \/ ResetCall
    \/ CurItemCall
    \/ SetFuzzy

Spec == Init /\ [][Next]_vars

TypeOK ==
    /\ items \in ItemLists
    /\ default \in {UNSET} \cup Vals
    /\ mode \in Modes
    /\ idx \in {None} \cup (0..MaxLen)
    /\ fuzzyval \in {None} \cup Vals
\* ---- vocabulary of the properties ----
IsOk(r) == r.exc = ""

\* the IndexError _get_new_item raises at the border of the list
IndexOutOfRange(r) == r = ListIndexOutOfRange \/ r = BareIndexError

SetMin(S) == CHOOSE x \in S : \A y \in S : x <= y
SetMax(S) == CHOOSE x \in S : \A y \in S : x >= y

\* the nearest item on the side the offset points to, by value
SnapTarget(v, offset) ==
    IF offset < 0
    THEN Index(items, SetMax({x \in Range(items) : x <= v}))
    ELSE Index(items, SetMin({x \in Range(items) : x >= v}))

FuzzyMember == fuzzy0 # None /\ fuzzy0 \in Range(items)
FuzzyNonMember == fuzzy0 # None /\ fuzzy0 \notin Range(items)

\* C1 (as stated): with a pending fuzzy value v that is an item (here: one
\* that has a successor in a list of distinct items, as 3 in [1,3,5,7]),
\* nextitem returns v itself and leaves the cursor on the index of v.
C1_ReturnsMemberItself ==
    (/\ op = "nextitem"
     /\ FuzzyMember
     /\ Cardinality(Range(items)) = Len(items)
     /\ Index(items, fuzzy0) + 1 < Len(items)) =>
        (ret = Ok(fuzzy0) /\ idx = Index(items, fuzzy0))

\* C1 (amended): with a pending fuzzy value v that is an item, nextitem snaps
\* to the first index i of v at no cost and then applies the whole +1 step
\* from i: inside the list it returns items[i+1] with the cursor on i+1; at
\* the last index the boundary mode decides (block: v, cursor i; wrap:
\* items[0], cursor 0; exception: IndexError, cursor i).  fuzzyval is cleared.
C1_MemberSnapThenStep ==
    (op = "nextitem" /\ FuzzyMember) =>
        LET i == Index(items, fuzzy0)
        IN  /\ fuzzyval = None
            /\ IF i + 1 < Len(items)
               THEN ret = Ok(items[i + 2]) /\ idx = i + 1
               ELSE CASE mode = "block" -> ret = Ok(fuzzy0) /\ idx = i
                      [] mode = "wrap" -> ret = Ok(items[1]) /\ idx = 0
                      [] OTHER -> ret = ListIndexOutOfRange /\ idx = i

C1_Witness ==
    /\ op = "nextitem"
    /\ FuzzyMember
    /\ IsOk(ret)
    /\ idx = Index(items, fuzzy0) + 1
    /\ ret.val # fuzzy0

\* C2: with a pending fuzzy value v that is not an item, nextitem returns the
\* smallest item greater than v and previtem the largest item smaller than v
\* (when there is one), the cursor ends on that item's index, and the call
\* goes no further than the snap target.
C2_NonMemberSnap ==
    (op \in {"nextitem", "previtem"} /\ FuzzyNonMember) =>
        LET side == IF op = "nextitem"
                    THEN {x \in Range(items) : x > fuzzy0}
                    ELSE {x \in Range(items) : x < fuzzy0}
            t == IF op = "nextitem" THEN SetMin(side) ELSE SetMax(side)
        IN  side # {} =>
                /\ ret = Ok(t)
                /\ idx = Index(items, t)
                /\ fuzzyval = None

C2_Witness ==
    /\ op = "nextitem"
    /\ FuzzyNonMember
    /\ IsOk(ret)
    /\ ret.val > fuzzy0
    /\ idx + 1 < Len(items)
    /\ items[idx + 2] # ret.val

\* C3 (as stated): in exception mode a step that fails with the border
\* IndexError leaves the cursor where it was before the call, with or without
\* a pending fuzzy value (shown here from a state with a cursor).
C3_FailedStepKeepsCursor ==
    (mode = "exception" /\ op \in StepOps /\ IndexOutOfRange(ret)
        /\ idx0 # None) =>
        idx = idx0

\* C3 (amended): in exception mode a step that fails with the border
\* IndexError leaves the cursor where it was before the call when no fuzzy
\* value was pending; when one was pending the failed call leaves the cursor
\* on the snap target and the fuzzy value cleared.
C3_FailedStepCursor ==
    (mode = "exception" /\ op \in StepOps /\ IndexOutOfRange(ret)) =>
        /\ fuzzyval = None
        /\ IF fuzzy0 = None
           THEN idx = idx0
           ELSE idx = SnapTarget(fuzzy0, arg)

C3_Witness ==
    /\ mode = "exception"
    /\ op = "previtem"
    /\ fuzzy0 = None
    /\ idx0 = 0
    /\ IndexOutOfRange(ret)
    /\ idx = 0

\* C4: in wrap mode, nextitem called len(items) times in a row from a valid
\* cursor with no fuzzy value pending never fails and ends on the cursor it
\* started from, returning the item there.
C4_WrapFullCycle ==
    (mode = "wrap" /\ nextRun > 0) =>
        /\ op = "nextitem"
        /\ IsOk(ret)
        /\ nextRun = Len(items) => (idx = runIdx /\ ret = Ok(items[runIdx + 1]))

C4_Witness ==
    /\ mode = "wrap"
    /\ Len(items) >= 2
    /\ nextRun = Len(items)
    /\ runIdx = 1
    /\ idx = 1
    /\ IsOk(ret)

\* C5: in block mode with no fuzzy value pending, a step whose target lies
\* outside the list leaves the cursor where it was (no clamping) and returns
\* the item there; nextitem repeated at the last index stays on the last item.
C5_BlockStays ==
    /\ (/\ mode = "block"
        /\ op \in StepOps
        /\ fuzzy0 = None
        /\ idx0 # None
        /\ (idx0 + arg < 0 \/ idx0 + arg >= Len(items)))
       => (idx = idx0 /\ ret = Ok(items[idx0 + 1]))
    /\ (mode = "block" /\ nextRun > 0 /\ runIdx = Len(items) - 1)
       => (idx = Len(items) - 1 /\ ret = Ok(items[Len(items)]))

C5_Witness ==
    /\ mode = "block"
    /\ op = "getitem"
    /\ fuzzy0 = None
    /\ idx0 = 0
    /\ arg = 2
    /\ Len(items) = 2
    /\ idx = 0
    /\ ret = Ok(items[1])

\* C6: on a list constructed with a default, reset after any calls succeeds,
\* returns the default and puts the cursor on the index of the default.
C6_ResetToDefault ==
    (op = "reset" /\ default # UNSET) =>
        /\ ret = Ok(default)
        /\ idx = Index(items, default)
        /\ items[idx + 1] = default

C6_Witness ==
    /\ op = "reset"
    /\ default # UNSET
    /\ idx0 # None
    /\ idx0 # idx
    /\ fuzzy0 # None
    /\ ret = Ok(default)

\* C7: the cursor is always absent or an index inside the list, and always
\* absent on an empty list.
C7_CursorValid ==
    /\ idx = None \/ idx \in 0..(Len(items) - 1)
    /\ Len(items) = 0 => idx = None

C7_Witness ==
    /\ mode = "wrap"
    /\ op = "getitem"
    /\ fuzzy0 = None
    /\ idx0 # None
    /\ idx0 + arg < 0
    /\ idx \in 0..(Len(items) - 1)
    /\ idx # idx0

EmptyListOps == StepOps \cup {"firstitem", "lastitem", "curitem"}

\* C8 (as stated): on an empty list every positional call, curitem included,
\* fails with the empty-list error and leaves idx and fuzzyval as they were.
C8_AllRaiseNoItemsFound ==
    (Len(items) = 0 /\ op \in EmptyListOps) =>
        /\ ret = NoItemsFound
        /\ idx = None
        /\ idx = idx0
        /\ fuzzyval = fuzzy0

\* C8 (amended): on an empty list nextitem, previtem, getitem, firstitem and
\* lastitem fail with the empty-list IndexError ("No items found!") and
\* curitem fails with the no-current-item IndexError ("No current item!"),
\* in every mode and with or without a pending fuzzy value; idx stays absent
\* and fuzzyval is unchanged.
C8_EmptyListFails ==
    (Len(items) = 0 /\ op \in EmptyListOps) =>
        /\ ret = IF op = "curitem" THEN NoCurrentItem ELSE NoItemsFound
        /\ idx = None
        /\ idx = idx0
        /\ fuzzyval = fuzzy0

C8_Witness ==
    /\ Len(items) = 0
    /\ op = "firstitem"
    /\ fuzzy0 # None
    /\ ret = NoItemsFound
    /\ idx = None
    /\ fuzzyval = fuzzy0

\* C9: in block and wrap mode a step on a non-empty list never fails with an
\* IndexError, whatever the offset, the cursor and the pending fuzzy value.
C9_NoIndexErrorInBlockWrap ==
    (mode \in {"block", "wrap"} /\ op \in StepOps /\ Len(items) > 0) =>
        (~IndexOutOfRange(ret) /\ ret.exc # "IndexError")

C9_Witness ==
    /\ mode = "block"
    /\ op = "getitem"
    /\ fuzzy0 # None
    /\ idx0 # None
    /\ arg < 0
    /\ IsOk(ret)
    /\ idx = 0
    /\ idx = SnapTarget(fuzzy0, arg)

\* C10: firstitem and lastitem jump to index 0 and len-1 whether or not a
\* fuzzy value is pending, and they, reset and curitem leave fuzzyval as it
\* was.
C10_AbsoluteJumps ==
    /\ (op = "firstitem" /\ Len(items) > 0)
       => (idx = 0 /\ ret = Ok(items[1]))
    /\ (op = "lastitem" /\ Len(items) > 0)
       => (idx = Len(items) - 1 /\ ret = Ok(items[Len(items)]))
    /\ op \in {"firstitem", "lastitem", "reset", "curitem"}
       => fuzzyval = fuzzy0

C10_Witness ==
    /\ op = "lastitem"
    /\ fuzzy0 # None
    /\ fuzzyval = fuzzy0
    /\ idx = Len(items) - 1
    /\ idx0 # None
    /\ idx0 # idx
\* the items on the side of v that an offset points to
SnapSide(v, offset) ==
    {x \in Range(items) : IF offset < 0 THEN x <= v ELSE x >= v}

InList(i) == i >= 0 /\ i < Len(items)

\* C11 (as stated): a step on a non-empty list that starts with a fuzzy value
\* pending ends with fuzzyval absent, whether it returns or fails.
C11_StepAlwaysClearsFuzzy ==
    (op \in StepOps /\ Len(items) > 0 /\ fuzzy0 # None) => fuzzyval = None

\* C11 (amended): a step on a non-empty list that starts with a fuzzy value
\* pending ends with fuzzyval absent, whether it returns or fails, when some
\* item lies on the requested side; when none does the call fails and the
\* fuzzy value stays pending.  fuzzyval becomes present, or changes, only
\* through set_fuzzy.
C11_StepClearsFuzzy ==
    /\ (op \in StepOps /\ Len(items) > 0 /\ fuzzy0 # None) =>
          IF SnapSide(fuzzy0, arg) # {}
          THEN fuzzyval = None
          ELSE fuzzyval = fuzzy0 /\ ~IsOk(ret)
    /\ (fuzzyval # None /\ fuzzyval # fuzzy0) => op = "set_fuzzy"

C11_Witness ==
    /\ op \in StepOps
    /\ mode = "exception"
    /\ fuzzy0 # None
    /\ SnapSide(fuzzy0, arg) # {}
    /\ IndexOutOfRange(ret)
    /\ fuzzyval = None

\* C12: when a step resolves a pending non-member fuzzy value, the offset
\* applied after the snap is offset-1 for offset > 0, offset+1 for
\* offset < 0 and never further from zero than the offset given, so it is 0
\* for offset 0: whenever the snap target plus that remaining offset lies in
\* the list, the cursor ends there and the item there is returned.
C12_SnapConsumesTowardZero ==
    (op \in StepOps /\ FuzzyNonMember /\ SnapSide(fuzzy0, arg) # {}) =>
        LET t == SnapTarget(fuzzy0, arg)
            rest == IF arg > 0 THEN arg - 1
                    ELSE IF arg < 0 THEN arg + 1
                    ELSE 0
        IN  InList(t + rest) =>
                (idx = t + rest /\ ret = Ok(items[t + rest + 1]))
\* C13: with a cursor c and no fuzzy value pending, a step moves the cursor
\* to c+offset and returns the item there exactly when c+offset lies in the
\* list, in every mode; a negative target is never used as an index counted
\* from the end: it is handled as a border crossing by the boundary mode.
C13_InRangeMove ==
    (op \in StepOps /\ fuzzy0 = None /\ idx0 # None) =>
        LET t == idx0 + arg
        IN  /\ InList(t) => (idx = t /\ ret = Ok(items[t + 1]))
            /\ ~InList(t) => idx # t
            /\ t < 0 =>
                 CASE mode = "block" ->
                        idx = idx0 /\ ret = Ok(items[idx0 + 1])
                   [] mode = "wrap" ->
                        idx = t % Len(items) /\ ret = Ok(items[idx + 1])
                   [] OTHER ->
                        idx = idx0 /\ ret = BareIndexError

C13_Witness ==
    /\ op = "getitem"
    /\ mode = "exception"
    /\ fuzzy0 = None
    /\ idx0 = 1
    /\ arg = -2
    /\ Len(items) = 2
    /\ items[2] # items[1]
    /\ idx = 1
    /\ ret = BareIndexError

\* C14: in wrap mode a step whose target lies outside the list puts the
\* cursor on the index in [0, len) congruent to cursor + offset modulo len,
\* also for negative targets and offsets larger than len, and returns the
\* item there.
C14_WrapModulo ==
    (/\ mode = "wrap"
     /\ op \in StepOps
     /\ fuzzy0 = None
     /\ idx0 # None
     /\ ~InList(idx0 + arg)) =>
        /\ InList(idx)
        /\ \E k \in (0 - (MaxLen + MaxOff))..(MaxLen + MaxOff) :
               idx = idx0 + arg + k * Len(items)
        /\ ret = Ok(items[idx + 1])

C14_Witness ==
    /\ mode = "wrap"
    /\ op = "getitem"
    /\ fuzzy0 = None
    /\ Len(items) = 2
    /\ idx0 = 0
    /\ arg = -3
    /\ idx = 1
    /\ ret = Ok(items[2])

ItemOps == StepOps \cup {"firstitem", "lastitem", "reset", "curitem"}

\* C15: whenever a call returns an item, that item is items[idx] in the
\* state after the call.
C15_ReturnsItemAtCursor ==
    (op \in ItemOps /\ IsOk(ret)) =>
        (InList(idx) /\ ret.val = items[idx + 1])

C15_Witness ==
    /\ op = "getitem"
    /\ fuzzy0 # None
    /\ idx0 # None
    /\ arg = 2
    /\ IsOk(ret)
    /\ idx # idx0
    /\ idx = SnapTarget(fuzzy0, arg) + 1
    /\ ret.val = items[idx + 1]
    /\ ret.val # items[idx0 + 1]

\* C16: with a fuzzy value pending and no item on the requested side, a step
\* on a non-empty list fails in every mode and leaves idx and fuzzyval as
\* they were.
C16_NoSnapCandidateFails ==
    (/\ op \in StepOps
     /\ Len(items) > 0
     /\ fuzzy0 # None
     /\ SnapSide(fuzzy0, arg) = {}) =>
        /\ ~IsOk(ret)
        /\ ret = MinOfEmpty
        /\ idx = idx0
        /\ fuzzyval = fuzzy0

C16_Witness ==
    /\ op = "previtem"
    /\ mode = "wrap"
    /\ Len(items) = 2
    /\ idx0 = 1
    /\ fuzzy0 # None
    /\ SnapSide(fuzzy0, arg) = {}
    /\ ret = MinOfEmpty
    /\ idx = 1
    /\ fuzzyval = fuzzy0

\* C17 (as stated): on a non-empty list without a cursor, a step with a
\* pending fuzzy value that has a qualifying item succeeds and sets the
\* cursor.
C17_SnapFromNoCursorSucceeds ==
    (/\ op \in StepOps
     /\ Len(items) > 0
     /\ idx0 = None
     /\ fuzzy0 # None
     /\ SnapSide(fuzzy0, arg) # {}) =>
        (IsOk(ret) /\ idx # None)

\* C17 (amended): on a non-empty list without a cursor and with no fuzzy
\* value pending, a step fails in every mode and the cursor stays absent;
\* with a pending fuzzy value that has a qualifying item the same call sets
\* the cursor, and succeeds in block and wrap mode; in exception mode it
\* succeeds unless the remaining offset leads out of the list, where it
\* fails with the border IndexError, the cursor on the snap target.
C17_StepWithoutCursor ==
    /\ (/\ op \in StepOps
        /\ Len(items) > 0
        /\ idx0 = None
        /\ fuzzy0 = None) =>
           (ret = NoneTypeError /\ idx = None /\ fuzzyval = None)
    /\ (/\ op \in StepOps
        /\ Len(items) > 0
        /\ idx0 = None
        /\ fuzzy0 # None
        /\ SnapSide(fuzzy0, arg) # {}) =>
           /\ InList(idx)
           /\ mode # "exception" => IsOk(ret)
           /\ mode = "exception" =>
                \/ IsOk(ret)
                \/ IndexOutOfRange(ret) /\ idx = SnapTarget(fuzzy0, arg)

C17_Witness ==
    /\ op = "nextitem"
    /\ Len(items) > 0
    /\ idx0 = None
    /\ fuzzy0 # None
    /\ FuzzyNonMember
    /\ IsOk(ret)
    /\ idx = SnapTarget(fuzzy0, arg)
\* C18: in wrap mode, with a cursor and no fuzzy value pending, a step by k
\* followed by a step by -k ends on the cursor the first step started from,
\* for every signed k; so nextitem followed by previtem restores the cursor.
C18_WrapStepBack ==
    (mode = "wrap" /\ backIdx # None) =>
        (idx = backIdx /\ ret = Ok(items[backIdx + 1]))

C18_Witness ==
    /\ mode = "wrap"
    /\ backIdx # None
    /\ Len(items) = 2
    /\ arg = 3
    /\ idx0 # backIdx
    /\ idx = backIdx
    /\ ret = Ok(items[backIdx + 1])
====
